---- MODULE Spec2Model ----
(***************************************************************************)
(* Control core of the dual prompt improver: the basic controller          *)
(* DualPromptImprover.run_dual_improvement (src/dual_prompt_improver.py)   *)
(* and the enhanced controller                                             *)
(* EnhancedDualPromptImprover.enhanced_run_dual_improvement                *)
(* (src/enhanced_dual_improver.py).  The oracle (get_llm_response) is the  *)
(* environment: every result it can hand back is drawn with \E.            *)
(*                                                                         *)
(* Prompts are modelled by identity: 0 is the caller-supplied text, n > 0  *)
(* the text the oracle produced in round n, FILE_PROMPT the text read from *)
(* INITIAL_CRITIQUE_PROMPT_FILE.                                           *)
(***************************************************************************)
EXTENDS Integers, Sequences, FiniteSets, TLC

VARIABLES
    variant,                          \* "basic" | "enhanced": class of the controller object
    cfg,                              \* the module-level configuration (config.py)
    pc,                               \* "idle" | "loop" | "done" | "returned" | "raised"
    stop,                             \* the exit taken from the loop (RUNNING while in it)
    iteration_count,                  \* self.iteration_count
    history,                          \* self.history
    critique_improvement_history,     \* self.critique_improvement_history
    current_system_prompt,            \* locals of the run
    current_critique_prompt,
    current_score,
    best_score,
    iterations_without_improvement,
    meta_evaluation,                  \* local; "unbound" until first assigned
    last,                             \* what the last executed round asked of the oracle
    failures,                         \* non-fatal no-results the oracle has given so far
    result                            \* the returned dict

vars == <<variant, cfg, pc, stop, iteration_count, history,
          critique_improvement_history, current_system_prompt,
          current_critique_prompt, current_score, best_score,
          iterations_without_improvement, meta_evaluation, last, failures,
          result>>

----------------------------------------------------------------------------
(* Configuration *)

TARGET_SCORE == 95
IMPROVE_CRITIQUE_EVERY == 3
CRITIQUE_IMPROVEMENT_THRESHOLD == 85
EARLY_STOPPING_PATIENCE == 3
CONFIDENCE_THRESHOLD == 90
VALIDATION_ROUNDS == 2
CRITIQUE_STABILITY_WINDOW == 3
ACCEPT_CONFIDENCE == 60

\* MAX_ITERATIONS is explored from 1 up to this bound.
MaxRounds == 4
\* The oracle gives at most this many no-results that the loop survives
\* (meta-evaluation, prompt revisions); fatal no-results are not limited.
MaxFailures == 2

\* The configurations explored: config.py is meant to be edited, and
\* run(...) takes the configuration as its input.
Configs ==
    [max_iterations : 1..MaxRounds,
     patience : 0..EARLY_STOPPING_PATIENCE,
     enable_critique : BOOLEAN,
     enable_system : BOOLEAN]

----------------------------------------------------------------------------
(* Oracle outputs *)

\* Scores a critique can carry (the "score" key of the parsed JSON).
ScoreValues == {50, 72, 96}
MetaValues == {60, 88}

\* get_llm_response(..., expect_json=False): None (or "") or a text.
TextOutputs == {"None", "text"}

\* get_llm_response(..., expect_json=True) for the critique: None (or an
\* empty record), or a record whose "score" is a number, is absent, or is
\* not a number.
CritiqueOutputs ==
    [kind : {"None", "missing", "nonnumeric"}, score : {0}]
        \cup [kind : {"int"}, score : ScoreValues]

MetaOutputs ==
    [kind : {"None", "missing", "nonnumeric"}, meta_score : {0}]
        \cup [kind : {"int"}, meta_score : MetaValues]

\* `not x` for an oracle result.
Falsy(x) == x = "None"
FalsyRecord(r) == r.kind = "None"

\* critique_data.get("score", 0) / meta_evaluation.get('meta_score', 0)
GetScore(critique_data) ==
    IF critique_data.kind = "missing" THEN 0 ELSE critique_data.score
GetMetaScore(m) ==
    IF m.kind = "missing" THEN 0 ELSE m.meta_score

\* int(...) raises on a value that is not a number.
IntRaises(critique_data) == critique_data.kind = "nonnumeric"
\* meta_score < CRITIQUE_IMPROVEMENT_THRESHOLD raises on a non-number.
CompareRaises(m) == m.kind = "nonnumeric"

----------------------------------------------------------------------------
(* Decisions of the loop *)

\* The loop bounded by the round counter alone.
BasicLoopConditionRoundsOnly(score, n, max) ==
    n < max

\* while current_score < TARGET_SCORE and self.iteration_count < MAX_ITERATIONS
BasicLoopCondition(score, n, max) ==
    score < TARGET_SCORE /\ n < max

\* Tracking that takes a tie for an improvement.
TrackBestOnTie(score, best, without) ==
    IF score >= best THEN <<score, 0>> ELSE <<best, without + 1>>

\* Tracking that keeps the counter when the best score is raised.
TrackBestNoReset(score, best, without) ==
    IF score > best THEN <<score, without>> ELSE <<best, without + 1>>

\* Track best score and stagnation: <<best_score, iterations_without_improvement>>
TrackBest(score, best, without) ==
    IF score > best THEN <<score, 0>> ELSE <<best, without + 1>>

\* An evaluation in every round.
CritiqueEvaluationDueEveryRound(enabled, n) ==
    enabled

\* self.iteration_count % IMPROVE_CRITIQUE_EVERY == 0 or self.iteration_count == 1
CritiqueEvaluationDue(enabled, n) ==
    enabled /\ (n % IMPROVE_CRITIQUE_EVERY = 0 \/ n = 1)

\* A revision whatever the meta-score.
NeedsCritiqueImprovementAlways(meta_score) ==
    TRUE

\* if meta_score < CRITIQUE_IMPROVEMENT_THRESHOLD
NeedsCritiqueImprovement(meta_score) ==
    meta_score < CRITIQUE_IMPROVEMENT_THRESHOLD

TargetReached(score) == score >= TARGET_SCORE

\* Early stopping one round late.
BasicEarlyStopLate(score, without, patience) ==
    ~TargetReached(score) /\ without > patience

\* elif iterations_without_improvement >= EARLY_STOPPING_PATIENCE: break
BasicEarlyStop(score, without, patience) ==
    ~TargetReached(score) /\ without >= patience

\* The system prompt improved whatever the toggle says.
ShouldImproveSystemPromptAnyway(enabled, score, n, max) ==
    score < TARGET_SCORE /\ n < max

\* if (ENABLE_SYSTEM_PROMPT_IMPROVEMENT and current_score < TARGET_SCORE
\*     and self.iteration_count < MAX_ITERATIONS)
ShouldImproveSystemPrompt(enabled, score, n, max) ==
    enabled /\ score < TARGET_SCORE /\ n < max

----------------------------------------------------------------------------
(* Records *)

Unbound == [kind |-> "unbound", meta_score |-> 0, at |-> 0]
\* a meta-evaluation the oracle returned in round n (None included)
MetaAt(m, n) == [kind |-> m.kind, meta_score |-> m.meta_score, at |-> n]
\* meta_evaluation if 'meta_evaluation' in locals() else None
MetaOrNone(m) ==
    IF m.kind = "unbound" THEN [kind |-> "None", meta_score |-> 0, at |-> 0] ELSE m

\* no cross-validation was run
NoCv == [ran |-> FALSE, num |-> 0, den |-> 1, lower |-> FALSE,
         unscored |-> FALSE, rubric |-> 0, candidate |-> 0]

NoCalls ==
    [round |-> 0, generated |-> FALSE, scored |-> FALSE, meta_requested |-> FALSE,
     critique_revision |-> FALSE, critique_revised |-> FALSE,
     system_revision |-> FALSE,
     raw_score |-> [kind |-> "None", score |-> 0],
     used_system |-> 0, used_critique |-> 0, cv |-> NoCv]

NoResult == [returned |-> FALSE]

----------------------------------------------------------------------------
(* Initial state: the controller object after __init__ *)

Init ==
    /\ variant \in {"basic", "enhanced"}
    /\ cfg \in Configs
    /\ pc = "idle"
    /\ stop = "RUNNING"
    /\ iteration_count = 0
    /\ history = <<>>
    /\ critique_improvement_history = <<>>
    /\ current_system_prompt = 0
    /\ current_critique_prompt = 0
    /\ current_score = 0
    /\ best_score = 0
    /\ iterations_without_improvement = 0
    /\ meta_evaluation = Unbound
    /\ last = NoCalls
    /\ failures = 0
    /\ result = NoResult

\* Entry of run_dual_improvement: the locals are set.
Run ==
    /\ pc = "idle"
    /\ pc' = "loop"
    /\ current_system_prompt' = 0
    /\ current_critique_prompt' = 0
    /\ current_score' = 0
    /\ best_score' = 0
    /\ iterations_without_improvement' = 0
    /\ meta_evaluation' = Unbound
    /\ UNCHANGED <<variant, cfg, stop, iteration_count, history,
                   critique_improvement_history, last, failures, result>>

----------------------------------------------------------------------------
(* Records *)

\* A record that does not carry its round number.
IterationRecordUnnumbered(n, system, critique_prompt, used_system, used_critique, score, meta) ==
    [iteration |-> 0,
     system_prompt |-> system,
     critique_prompt_used |-> critique_prompt,
     response |-> [by |-> used_system],
     score |-> score,
     critique |-> [by |-> used_critique],
     meta_evaluation |-> meta]

\* self.history.append({...}) of the basic controller
IterationRecord(n, system, critique_prompt, used_system, used_critique, score, meta) ==
    [iteration |-> n,
     system_prompt |-> system,
     critique_prompt_used |-> critique_prompt,
     response |-> [by |-> used_system],
     score |-> score,
     critique |-> [by |-> used_critique],
     meta_evaluation |-> meta]

CritiqueImprovementRecord(n, meta_score, old, new) ==
    [iteration |-> n, meta_score |-> meta_score,
     old_critique_prompt |-> old, new_critique_prompt |-> new]

Calls(n, gen, scored, meta, crit_rev, crit_text, sys_rev, raw, cv) ==
    [round |-> n, generated |-> gen, scored |-> scored, meta_requested |-> meta,
     critique_revision |-> crit_rev, critique_revised |-> crit_text,
     system_revision |-> sys_rev,
     raw_score |-> raw,
     used_system |-> current_system_prompt,
     used_critique |-> current_critique_prompt, cv |-> cv]

\* What the oracle may answer to a request that is made (any output, within
\* the budget of survivable no-results) or not made (nothing is consumed).
TextAnswers(requested, budget) ==
    IF ~requested \/ budget <= 0 THEN {"text"} ELSE TextOutputs
MetaAnswers(requested, budget) ==
    IF ~requested THEN {[kind |-> "None", meta_score |-> 0]}
    ELSE IF budget <= 0 THEN {m \in MetaOutputs : ~FalsyRecord(m)}
    ELSE MetaOutputs
Failed(requested, answer) == IF requested /\ Falsy(answer) THEN 1 ELSE 0

----------------------------------------------------------------------------
(* Arithmetic of the enhanced controller.  Python computes in floating     *)
(* point; here every comparison and rounding is decided exactly, on        *)
(* integers: a standard deviation is compared through its square.          *)

RECURSIVE SeqSum(_)
SeqSum(s) == IF s = <<>> THEN 0 ELSE s[1] + SeqSum(Tail(s))

\* The whole list instead of its tail.
LastNWhole(s, k) ==
    s

\* s[-k:]
LastN(s, k) ==
    IF Len(s) <= k THEN s ELSE SubSeq(s, Len(s) - k + 1, Len(s))

Min2(a, b) == IF a <= b THEN a ELSE b
Max2(a, b) == IF a >= b THEN a ELSE b

\* round(p/q), q > 0: Python rounds halves to the even neighbour.
RoundHalfEven(p, q) ==
    LET f == p \div q
        r == p - f * q
    IN  IF 2 * r < q THEN f
        ELSE IF 2 * r > q THEN f + 1
        ELSE IF f % 2 = 0 THEN f ELSE f + 1

\* the integer part of the square root of n >= 0, sought in lo..hi
RECURSIVE ISqrtIn(_, _, _)
ISqrtIn(n, lo, hi) ==
    IF lo >= hi THEN lo
    ELSE LET mid == (lo + hi + 1) \div 2
         IN  IF mid * mid <= n THEN ISqrtIn(n, mid, hi) ELSE ISqrtIn(n, lo, mid - 1)
ISqrt(n) == ISqrtIn(n, 0, 1024)

\* statistics.stdev(xs)^2 = VarNum(xs) / VarDen(xs), for Len(xs) >= 2
VarNum(xs) == Len(xs) * SeqSum([i \in 1..Len(xs) |-> xs[i] * xs[i]])
                 - SeqSum(xs) * SeqSum(xs)
VarDen(xs) == Len(xs) * (Len(xs) - 1)

\* consistency_score = max(0, 100 - score_std * 2), where score_std^2 = a/b,
\* compared with yn/yd (yd > 0)
ConsistencyGE(a, b, yn, yd) ==
    \/ yn <= 0
    \/ /\ 100 * yd - yn >= 0
       /\ 4 * a * yd * yd <= (100 * yd - yn) * (100 * yd - yn) * b
ConsistencyGT(a, b, yn, yd) ==
    \/ yn < 0
    \/ /\ 100 * yd - yn > 0
       /\ 4 * a * yd * yd < (100 * yd - yn) * (100 * yd - yn) * b

\* The difference counted once instead of twice.
TrendScoreSingle(xs) ==
    IF Len(xs) >= 2
    THEN Max2(0, Min2(100, 50 + (xs[Len(xs)] - xs[1])))
    ELSE 50

\* trend_score = max(0, min(100, 50 + (recent[-1] - recent[0]) * 2))
TrendScore(xs) ==
    IF Len(xs) >= 2
    THEN Max2(0, Min2(100, 50 + (xs[Len(xs)] - xs[1]) * 2))
    ELSE 50

\* meta_stability = 100 if meta_avg >= THRESHOLD else meta_avg, times Len(ms)
MetaStabilityNum(ms) ==
    IF SeqSum(ms) >= CRITIQUE_IMPROVEMENT_THRESHOLD * Len(ms)
    THEN 100 * Len(ms) ELSE SeqSum(ms)

\* h.get('score', 0) and h.get('meta_score', 0) of a history entry: the
\* entries the controllers append carry "score" and no "meta_score" key.
EntryScore(h) == h.score
EntryMetaScore(h) == 0

\* validate_critique_quality from the statistics on: xs are recent_scores,
\* ms are recent_meta_scores (Len(xs) = Len(ms) >= 2)
ValidateWindow(xs, ms) ==
    LET n == Len(xs)
        a == VarNum(xs)
        b == VarDen(xs)
        trend == TrendScore(xs)
        mn == MetaStabilityNum(ms)
        \* score_std lies in [sf, sf + 1), consistency in [clo, chi]
        sf == ISqrt(a \div b)
        chi == Max2(0, 100 - 2 * sf)
        clo == Max2(0, 100 - 2 * sf - 2)
        \* confidence = consistency*0.4 + trend*0.4 + meta_stability*0.2
        \* >= xh/2  iff  consistency >= (5*(xh/2) - 2*trend - meta)/2
        cge(yh) == ConsistencyGE(a, b, yh, 2)
        cgt(yh) == ConsistencyGT(a, b, yh, 2)
        vge(xh) == ConsistencyGE(a, b, 5 * xh * n - 2 * (2 * trend * n + mn), 4 * n)
        vgt(xh) == ConsistencyGT(a, b, 5 * xh * n - 2 * (2 * trend * n + mn), 4 * n)
        \* round(x) for a value x known through its comparisons with the
        \* half-integers (ge(xh) is x >= xh/2, gt(xh) is x > xh/2) and
        \* known to lie between the integers lo and hi
        RoundBy(ge(_), gt(_), lo, hi) ==
            LET k == CHOOSE j \in lo..(hi + 1) :
                         ge(2 * j - 1) /\ (j = hi + 1 \/ ~ge(2 * j + 1))
            IN  IF ~gt(2 * k - 1) /\ k % 2 = 1 THEN k - 1 ELSE k
    IN  [is_valid |-> vge(2 * 70),
         confidence |-> RoundBy(vge, vgt,
                                (2 * n * clo + 2 * n * trend + mn) \div (5 * n),
                                (2 * n * chi + 2 * n * trend + mn) \div (5 * n)),
         consistency_score |-> RoundBy(cge, cgt, clo, chi),
         trend_score |-> trend,
         meta_stability |-> RoundHalfEven(mn, n)]

\* The scores a history entry can hold, and the windows validation reads.
\* The reports of all windows are computed once and looked up.
StoredScores == ScoreValues \cup {0}
ScoreWindows ==
    UNION {[1..k -> StoredScores] : k \in 2..CRITIQUE_STABILITY_WINDOW}
WindowReports ==
    [xs \in ScoreWindows |-> ValidateWindow(xs, [i \in 1..Len(xs) |-> 0])] @@ <<>>

\* A report that declares the critique prompt unreliable.
InsufficientHistoryReportInvalid ==
    [is_valid |-> FALSE, confidence |-> 0, reason |-> "Insufficient history"]

\* return {"is_valid": True, "confidence": 50, "reason": "Insufficient history"}
InsufficientHistoryReport ==
    [is_valid |-> TRUE, confidence |-> 50, reason |-> "Insufficient history"]

\* validate_critique_quality(critique_history)
ValidateCritiqueQuality(critique_history) ==
    IF Len(critique_history) < 2
    THEN InsufficientHistoryReport
    ELSE LET recent == LastN(critique_history, CRITIQUE_STABILITY_WINDOW)
             xs == [i \in 1..Len(recent) |-> EntryScore(recent[i])]
             ms == [i \in 1..Len(recent) |-> EntryMetaScore(recent[i])]
         IN  IF xs \in ScoreWindows /\ SeqSum(ms) = 0
             THEN WindowReports[xs]
             ELSE ValidateWindow(xs, ms)

\* critique_quality = min(100, final_meta_score + 10), final_meta_score
\* being the meta_score of the last improvement, 0 if there is none
CritiqueQuality(improvements) ==
    LET final_meta_score ==
            IF improvements # <<>>
            THEN improvements[Len(improvements)].meta_score ELSE 0
    IN  Min2(100, final_meta_score + 10)

\* The aggregate with a target achievement that is not capped at 100.
CalculateFinalConfidenceUncapped(hist, improvements) ==
    IF hist = <<>> THEN 0
    ELSE LET final_score == EntryScore(hist[Len(hist)])
             score_stability == ValidateCritiqueQuality(hist).confidence
             critique_quality == CritiqueQuality(improvements)
             tn == final_score * 100
         IN  RoundHalfEven(4 * tn + 3 * (score_stability + critique_quality)
                                        * TARGET_SCORE,
                           10 * TARGET_SCORE)

\* calculate_final_confidence(): hist is self.history, improvements is
\* self.critique_improvement_history
CalculateFinalConfidence(hist, improvements) ==
    IF hist = <<>> THEN 0
    ELSE LET final_score == EntryScore(hist[Len(hist)])
             score_stability == ValidateCritiqueQuality(hist).confidence
             critique_quality == CritiqueQuality(improvements)
             \* target_achievement = tn / TARGET_SCORE
             tn == IF final_score >= TARGET_SCORE
                   THEN 100 * TARGET_SCORE ELSE final_score * 100
         IN  \* (4*tn/TARGET + 3*stability + 3*quality) / 10
             RoundHalfEven(4 * tn + 3 * (score_stability + critique_quality)
                                        * TARGET_SCORE,
                           10 * TARGET_SCORE)

----------------------------------------------------------------------------
(* The basic controller: one pass of the while body *)

\* A break that leaves a record of the unfinished round behind.
AbortRecordingRound(n, critique_data, to_pc, to_stop, scored) ==
    /\ pc' = to_pc
    /\ stop' = to_stop
    /\ iteration_count' = n
    /\ last' = Calls(n, TRUE, scored, FALSE, FALSE, FALSE, FALSE, critique_data, NoCv)
    /\ history' = Append(history,
                         IterationRecord(n, current_system_prompt,
                                         current_critique_prompt,
                                         current_system_prompt,
                                         current_critique_prompt, 0,
                                         MetaOrNone(meta_evaluation)))
    /\ UNCHANGED <<variant, cfg, critique_improvement_history,
                   current_system_prompt, current_critique_prompt, current_score,
                   best_score, iterations_without_improvement, meta_evaluation,
                   failures, result>>

\* A break or an exception before the score is assigned: only the round
\* counter has moved.
Abort(n, critique_data, to_pc, to_stop, scored) ==
    /\ pc' = to_pc
    /\ stop' = to_stop
    /\ iteration_count' = n
    /\ last' = Calls(n, TRUE, scored, FALSE, FALSE, FALSE, FALSE, critique_data, NoCv)
    /\ UNCHANGED <<variant, cfg, history, critique_improvement_history,
                   current_system_prompt, current_critique_prompt, current_score,
                   best_score, iterations_without_improvement, meta_evaluation,
                   failures, result>>

\* `if improved_critique_prompt:` / `if new_system_prompt:` skipped: the
\* answer replaces the active prompt whatever it is.
RevisedPromptUnchecked(requested, answer, n, current) ==
    IF requested THEN n ELSE current

\* The active prompt after a revision request: the answer (the prompt
\* produced in round n) when there is one, else the prompt as it was.
RevisedPrompt(requested, answer, n, current) ==
    IF requested /\ ~Falsy(answer) THEN n ELSE current

\* From the score assignment (line 345) to the end of the body.
BasicScored(n, critique_data, meta, improved_critique, new_system) ==
    LET score == GetScore(critique_data)
        tb == TrackBest(score, best_score, iterations_without_improvement)
        due == CritiqueEvaluationDue(cfg.enable_critique, n)
        meta_now == IF due THEN MetaAt(meta, n) ELSE meta_evaluation
        meta_ok == due /\ ~FalsyRecord(meta)
        raises == meta_ok /\ CompareRaises(meta)
        needs == meta_ok /\ ~raises /\ NeedsCritiqueImprovement(GetMetaScore(meta))
        revised == needs /\ ~Falsy(improved_critique)
        critique_next == RevisedPrompt(needs, improved_critique, n,
                                       current_critique_prompt)
        early == ~raises /\ BasicEarlyStop(score, tb[2], cfg.patience)
        improve == /\ ~raises /\ ~early
                   /\ ShouldImproveSystemPrompt(cfg.enable_system, score, n,
                                                cfg.max_iterations)
        system_next == RevisedPrompt(improve, new_system, n,
                                     current_system_prompt)
    IN  /\ failures' = failures + (IF due /\ FalsyRecord(meta) THEN 1 ELSE 0)
                                + Failed(needs, improved_critique)
                                + Failed(improve, new_system)
        /\ iteration_count' = n
        /\ current_score' = score
        /\ best_score' = tb[1]
        /\ iterations_without_improvement' = tb[2]
        /\ meta_evaluation' = meta_now
        /\ critique_improvement_history' =
              IF revised
              THEN Append(critique_improvement_history,
                          CritiqueImprovementRecord(n, GetMetaScore(meta),
                                                    current_critique_prompt, n))
              ELSE critique_improvement_history
        /\ current_critique_prompt' = critique_next
        /\ current_system_prompt' = system_next
        /\ history' =
              IF raises \/ early
              THEN history
              ELSE Append(history,
                          IterationRecord(n, system_next, critique_next,
                                          current_system_prompt,
                                          current_critique_prompt, score,
                                          MetaOrNone(meta_now)))
        /\ pc' = IF raises THEN "raised" ELSE IF early THEN "done" ELSE "loop"
        /\ stop' = IF raises THEN "RAISED"
                   ELSE IF early THEN "STOPPED_NO_PROGRESS" ELSE "RUNNING"
        /\ last' = Calls(n, TRUE, TRUE, due, needs, revised, improve, critique_data,
                         NoCv)
        /\ UNCHANGED <<variant, cfg, result>>

BasicRound ==
    /\ variant = "basic"
    /\ pc = "loop"
    /\ BasicLoopCondition(current_score, iteration_count, cfg.max_iterations)
    /\ \E response \in TextOutputs, critique_data \in CritiqueOutputs :
          LET n == iteration_count + 1 IN
          IF Falsy(response)
          THEN critique_data.kind = "None"
               /\ Abort(n, critique_data, "done", "STOPPED_FAILURE", FALSE)
          ELSE IF FalsyRecord(critique_data)
          THEN Abort(n, critique_data, "done", "STOPPED_FAILURE", TRUE)
          ELSE IF IntRaises(critique_data)
          THEN Abort(n, critique_data, "raised", "RAISED", TRUE)
          ELSE LET score == GetScore(critique_data)
                   tb == TrackBest(score, best_score, iterations_without_improvement)
                   due == CritiqueEvaluationDue(cfg.enable_critique, n)
                   early == BasicEarlyStop(score, tb[2], cfg.patience)
                   improve == ~early /\ ShouldImproveSystemPrompt(
                                  cfg.enable_system, score, n, cfg.max_iterations)
               IN  \E meta \in MetaAnswers(due, MaxFailures - failures) :
                   LET f1 == IF due /\ FalsyRecord(meta) THEN 1 ELSE 0
                       needs == /\ due /\ ~FalsyRecord(meta) /\ ~CompareRaises(meta)
                                /\ NeedsCritiqueImprovement(GetMetaScore(meta))
                   IN  \E improved_critique \in
                              TextAnswers(needs, MaxFailures - failures - f1) :
                       \E new_system \in
                              TextAnswers(improve, MaxFailures - failures - f1
                                              - Failed(needs, improved_critique)) :
                          BasicScored(n, critique_data, meta, improved_critique,
                                      new_system)

\* The while condition is false: the loop is left without a break.
BasicLoopExit ==
    /\ variant = "basic"
    /\ pc = "loop"
    /\ ~BasicLoopCondition(current_score, iteration_count, cfg.max_iterations)
    /\ pc' = "done"
    /\ stop' = IF TargetReached(current_score)
               THEN "STOPPED_TARGET_MET" ELSE "STOPPED_MAX_ROUNDS"
    /\ UNCHANGED <<variant, cfg, iteration_count, history,
                   critique_improvement_history, current_system_prompt,
                   current_critique_prompt, current_score, best_score,
                   iterations_without_improvement, meta_evaluation, last,
                   failures, result>>

BasicReturn ==
    /\ variant = "basic"
    /\ pc = "done"
    /\ pc' = "returned"
    /\ result' = [returned |-> TRUE,
                  final_system_prompt |-> current_system_prompt,
                  final_critique_prompt |-> current_critique_prompt,
                  final_score |-> current_score,
                  best_score |-> best_score,
                  total_iterations |-> iteration_count,
                  target_achieved |-> current_score >= TARGET_SCORE,
                  history |-> history,
                  critique_improvement_history |-> critique_improvement_history]
    /\ UNCHANGED <<variant, cfg, stop, iteration_count, history,
                   critique_improvement_history, current_system_prompt,
                   current_critique_prompt, current_score, best_score,
                   iterations_without_improvement, meta_evaluation, last,
                   failures>>

----------------------------------------------------------------------------
(* The enhanced controller: cross-validation *)

\* the text of INITIAL_CRITIQUE_PROMPT_FILE, read by get_critique
FILE_PROMPT == -1

CvScoreValues == {50, 55}

\* What one prompt yields on one test input: no response (nothing is
\* appended), no critique (0 is appended), or a critique with a score.
CvSides ==
    [kind : {"noresponse", "nocritique"}, score : {0}]
        \cup [kind : {"int"}, score : CvScoreValues]

\* variations: how many usable variations the oracle returned (0: None or
\* an empty list); samples: the oracle's answers on each test input.
CvOutputs ==
    UNION {[variations : {v},
            samples : [1..(1 + v) -> [old : CvSides, new : CvSides]]]
           : v \in 0..(VALIDATION_ROUNDS - 1)}

CvFailures(cvo) ==
    (IF cvo.variations < VALIDATION_ROUNDS - 1 THEN 1 ELSE 0)
    + Cardinality({i \in DOMAIN cvo.samples : cvo.samples[i].old.kind # "int"})
    + Cardinality({i \in DOMAIN cvo.samples : cvo.samples[i].new.kind # "int"})

\* old_scores / new_scores as the loop over test_inputs builds them
SideScores(sides) ==
    LET kept == SelectSeq(sides, LAMBDA x : x.kind # "noresponse")
    IN  [i \in 1..Len(kept) |->
            IF kept[i].kind = "nocritique" THEN 0 ELSE kept[i].score]

\* get_critique: the most recent critique prompt from the improvement
\* history, or the file's text if there is none
GetCritiquePrompt(improvements) ==
    IF improvements # <<>>
    THEN improvements[Len(improvements)].new_critique_prompt
    ELSE FILE_PROMPT

RECURSIVE GCD(_, _)
GCD(a, b) == IF b = 0 THEN a ELSE GCD(b, a % b)

\* The improvement counted once instead of twice.
CvConfidenceSingle(old_scores, new_scores) ==
    IF old_scores # <<>> /\ new_scores # <<>>
    THEN LET den == Len(old_scores) * Len(new_scores)
             raw == 50 * den + (SeqSum(new_scores) * Len(old_scores)
                                - SeqSum(old_scores) * Len(new_scores))
             num == Min2(100 * den, Max2(0, raw))
             g == GCD(num, den)
         IN  [num |-> num \div g, den |-> den \div g]
    ELSE [num |-> 50, den |-> 1]

\* confidence = min(100, max(0, 50 + improvement * 2)) as the fraction
\* num/den in lowest terms, or the neutral 50 when a score list is empty
CvConfidence(old_scores, new_scores) ==
    IF old_scores # <<>> /\ new_scores # <<>>
    THEN LET den == Len(old_scores) * Len(new_scores)
             raw == 50 * den + 2 * (SeqSum(new_scores) * Len(old_scores)
                                    - SeqSum(old_scores) * Len(new_scores))
             num == Min2(100 * den, Max2(0, raw))
             g == GCD(num, den)
         IN  [num |-> num \div g, den |-> den \div g]
    ELSE [num |-> 50, den |-> 1]

\* cross_validate_improvement(old_prompt, new_prompt, user_input, test_cases)
CrossValidate(cvo) ==
    LET old_scores == SideScores([i \in 1..Len(cvo.samples) |-> cvo.samples[i].old])
        new_scores == SideScores([i \in 1..Len(cvo.samples) |-> cvo.samples[i].new])
        c == CvConfidence(old_scores, new_scores)
    IN  [inputs |-> Len(cvo.samples), old_scores |-> old_scores,
         new_scores |-> new_scores, num |-> c.num, den |-> c.den]

\* Acceptance from the neutral confidence up.
AcceptImprovementNeutral(num, den) == num >= 50 * den

\* if improvement_confidence >= 60
AcceptImprovement(num, den) == num >= ACCEPT_CONFIDENCE * den

\* every sampled score of the candidate is below every sampled score of
\* the prompt it would replace
UniformlyLower(cv) ==
    /\ cv.old_scores # <<>> /\ cv.new_scores # <<>>
    /\ \A i \in 1..Len(cv.old_scores), j \in 1..Len(cv.new_scores) :
          cv.new_scores[j] < cv.old_scores[i]

\* for the old prompt or for the new one, no test input got a score from
\* the oracle (the response or the critique failed on every one)
Unscored(cvo) ==
    \/ \A i \in DOMAIN cvo.samples : cvo.samples[i].old.kind # "int"
    \/ \A i \in DOMAIN cvo.samples : cvo.samples[i].new.kind # "int"

\* What the controller sees of a cross-validation, and what it cost in
\* no-results: every answer of the oracle, run through the function.
CvOutcomes ==
    {[num |-> CrossValidate(cvo).num, den |-> CrossValidate(cvo).den,
      lower |-> UniformlyLower(CrossValidate(cvo)),
      unscored |-> Unscored(cvo),
      failures |-> CvFailures(cvo)] : cvo \in CvOutputs}

CvSummary(cv, candidate) ==
    [ran |-> TRUE, num |-> cv.num, den |-> cv.den, lower |-> cv.lower,
     unscored |-> cv.unscored,
     rubric |-> GetCritiquePrompt(critique_improvement_history),
     candidate |-> candidate]

----------------------------------------------------------------------------
(* The enhanced controller: one pass of the while body *)

\* while (current_score < TARGET_SCORE and self.iteration_count < MAX_ITERATIONS
\*        and self.calculate_final_confidence() < CONFIDENCE_THRESHOLD)
EnhancedLoopCondition(score, n, max, confidence) ==
    score < TARGET_SCORE /\ n < max /\ confidence < CONFIDENCE_THRESHOLD

\* if current_score >= TARGET_SCORE and current_confidence >= CONFIDENCE_THRESHOLD: break
EnhancedTargetStop(score, confidence) ==
    score >= TARGET_SCORE /\ confidence >= CONFIDENCE_THRESHOLD

\* elif iterations_without_improvement >= EARLY_STOPPING_PATIENCE: break
EnhancedEarlyStop(score, confidence, without, patience) ==
    ~EnhancedTargetStop(score, confidence) /\ without >= patience

\* not critique_validation['is_valid'] joins the trigger of the basic loop
EnhancedEvaluationDue(enabled, n, validation) ==
    enabled /\ (n % IMPROVE_CRITIQUE_EVERY = 0 \/ n = 1 \/ ~validation.is_valid)

EnhancedIterationRecord(n, system, rubric, used_system, used_rubric, score, val, conf) ==
    [iteration |-> n,
     system_prompt |-> system,
     critique_prompt_used |-> rubric,
     response |-> [by |-> used_system],
     score |-> score,
     critique |-> [by |-> used_rubric],
     meta_evaluation |-> [kind |-> "None", meta_score |-> 0, at |-> 0],
     critique_validation |-> val,
     confidence |-> conf]

\* From the score assignment (line 327) to the end of the body.  The block
\* under the evaluation trigger (lines 348-356) only logs.
EnhancedScored(n, critique_data, new_system, cv) ==
    LET score == GetScore(critique_data)
        validation == ValidateCritiqueQuality(Append(history, [score |-> score]))
        tb == TrackBest(score, best_score, iterations_without_improvement)
        due == EnhancedEvaluationDue(cfg.enable_critique, n, validation)
        improve == ShouldImproveSystemPrompt(cfg.enable_system, score, n,
                                             cfg.max_iterations)
        validated == improve /\ ~Falsy(new_system)
        accepted == validated /\ AcceptImprovement(cv.num, cv.den)
        system_next == IF accepted THEN n ELSE current_system_prompt
        \* the record is built, calculate_final_confidence() included,
        \* before it is appended
        record == EnhancedIterationRecord(
                      n, system_next, current_critique_prompt,
                      current_system_prompt, current_critique_prompt, score,
                      validation,
                      CalculateFinalConfidence(history, critique_improvement_history))
        history_next == Append(history, record)
        current_confidence ==
            CalculateFinalConfidence(history_next, critique_improvement_history)
        target == EnhancedTargetStop(score, current_confidence)
        early == EnhancedEarlyStop(score, current_confidence, tb[2], cfg.patience)
    IN  /\ failures' = failures + Failed(improve, new_system)
                                + (IF validated THEN cv.failures ELSE 0)
        /\ iteration_count' = n
        /\ current_score' = score
        /\ best_score' = tb[1]
        /\ iterations_without_improvement' = tb[2]
        /\ meta_evaluation' = [kind |-> "None", meta_score |-> 0, at |-> 0]
        /\ current_system_prompt' = system_next
        /\ history' = history_next
        /\ pc' = IF target \/ early THEN "done" ELSE "loop"
        /\ stop' = IF target THEN "STOPPED_TARGET_MET"
                   ELSE IF early THEN "STOPPED_NO_PROGRESS" ELSE "RUNNING"
        /\ last' = Calls(n, TRUE, TRUE, FALSE, FALSE, FALSE, improve, critique_data,
                         IF validated THEN CvSummary(cv, n) ELSE NoCv)
        /\ UNCHANGED <<variant, cfg, critique_improvement_history,
                       current_critique_prompt, result>>

\* the answers a cross-validation can get within the budget of no-results
CvAnswers(requested, budget) ==
    IF ~requested
    THEN {[num |-> 50, den |-> 1, lower |-> FALSE, unscored |-> FALSE,
           failures |-> 0]}
    ELSE {cv \in CvOutcomes : cv.failures <= budget}

EnhancedRound ==
    /\ variant = "enhanced"
    /\ pc = "loop"
    /\ EnhancedLoopCondition(current_score, iteration_count, cfg.max_iterations,
           CalculateFinalConfidence(history, critique_improvement_history))
    /\ \E response \in TextOutputs, critique_data \in CritiqueOutputs :
          LET n == iteration_count + 1 IN
          IF Falsy(response)
          THEN critique_data.kind = "None"
               /\ Abort(n, critique_data, "done", "STOPPED_FAILURE", FALSE)
          ELSE IF FalsyRecord(critique_data)
          THEN Abort(n, critique_data, "done", "STOPPED_FAILURE", TRUE)
          ELSE IF IntRaises(critique_data)
          THEN Abort(n, critique_data, "raised", "RAISED", TRUE)
          ELSE LET improve == ShouldImproveSystemPrompt(
                                  cfg.enable_system, GetScore(critique_data), n,
                                  cfg.max_iterations)
               IN  \E new_system \in TextAnswers(improve, MaxFailures - failures) :
                   \E cv \in CvAnswers(improve /\ ~Falsy(new_system),
                                       MaxFailures - failures) :
                      EnhancedScored(n, critique_data, new_system, cv)

\* The loop is left without a break.  Which conjunct of the while
\* condition failed names the exit.
EnhancedLoopExit ==
    /\ variant = "enhanced"
    /\ pc = "loop"
    /\ ~EnhancedLoopCondition(current_score, iteration_count, cfg.max_iterations,
           CalculateFinalConfidence(history, critique_improvement_history))
    /\ pc' = "done"
    /\ stop' = IF TargetReached(current_score) THEN "STOPPED_TARGET_MET"
               ELSE IF iteration_count >= cfg.max_iterations
               THEN "STOPPED_MAX_ROUNDS"
               ELSE "STOPPED_CONFIDENCE_MET"
    /\ UNCHANGED <<variant, cfg, iteration_count, history,
                   critique_improvement_history, current_system_prompt,
                   current_critique_prompt, current_score, best_score,
                   iterations_without_improvement, meta_evaluation, last,
                   failures, result>>

EnhancedReturn ==
    /\ variant = "enhanced"
    /\ pc = "done"
    /\ pc' = "returned"
    /\ LET final_confidence ==
               CalculateFinalConfidence(history, critique_improvement_history)
       IN  result' =
              [returned |-> TRUE,
               final_system_prompt |-> current_system_prompt,
               final_critique_prompt |-> current_critique_prompt,
               final_score |-> current_score,
               best_score |-> best_score,
               final_confidence |-> final_confidence,
               total_iterations |-> iteration_count,
               target_achieved |-> current_score >= TARGET_SCORE,
               confidence_achieved |-> final_confidence >= CONFIDENCE_THRESHOLD,
               full_success |-> /\ current_score >= TARGET_SCORE
                                /\ final_confidence >= CONFIDENCE_THRESHOLD,
               history |-> history,
               critique_improvement_history |-> critique_improvement_history]
    /\ UNCHANGED <<variant, cfg, stop, iteration_count, history,
                   critique_improvement_history, current_system_prompt,
                   current_critique_prompt, current_score, best_score,
                   iterations_without_improvement, meta_evaluation, last,
                   failures>>

----------------------------------------------------------------------------
(* Specifications *)

InitBasic == Init /\ variant = "basic"

NextBasic == Run \/ BasicRound \/ BasicLoopExit \/ BasicReturn

SpecBasic == InitBasic /\ [][NextBasic]_vars

InitEnhanced == Init /\ variant = "enhanced"

NextEnhanced == Run \/ EnhancedRound \/ EnhancedLoopExit \/ EnhancedReturn

SpecEnhanced == InitEnhanced /\ [][NextEnhanced]_vars

Next == Run \/ BasicRound \/ BasicLoopExit \/ BasicReturn
            \/ EnhancedRound \/ EnhancedLoopExit \/ EnhancedReturn

Spec == Init /\ [][Next]_vars

\* run_dual_improvement called again on a controller object whose run has
\* returned: the locals are set as in Run, the attributes of self
\* (iteration_count, history, critique_improvement_history) are whatever
\* the earlier run left, __init__ being the only place that sets them.
RunAgain ==
    /\ variant = "basic"
    /\ pc = "returned"
    /\ pc' = "loop"
    /\ stop' = "RUNNING"
    /\ current_system_prompt' = 0
    /\ current_critique_prompt' = 0
    /\ current_score' = 0
    /\ best_score' = 0
    /\ iterations_without_improvement' = 0
    /\ meta_evaluation' = Unbound
    /\ last' = NoCalls
    /\ result' = NoResult
    /\ UNCHANGED <<variant, cfg, iteration_count, history,
                   critique_improvement_history, failures>>

NextRepeated == Run \/ BasicRound \/ BasicLoopExit \/ BasicReturn \/ RunAgain

\* A basic controller object on which run_dual_improvement is called
\* any number of times, one call after the other.
SpecRepeated == InitBasic /\ [][NextRepeated]_vars

----------------------------------------------------------------------------
(* The functions of the enhanced controller on their own: the arguments    *)
(* are drawn in the initial state, one call is made, its value is kept in  *)
(* result.                                                                 *)

\* Longest history handed to a function.
MaxHistory == 4

DefaultConfig ==
    [max_iterations |-> MaxRounds, patience |-> EARLY_STOPPING_PATIENCE,
     enable_critique |-> TRUE, enable_system |-> TRUE]

\* Scores of the entries handed to validate_critique_quality: those of the
\* controller's runs and one more between 72 and 96.
ValidateScores == StoredScores \cup {84}

\* critique_history arguments: entries as the controller passes them,
\* self.history + [{"score": current_score}]
ValidateInputs ==
    UNION {[1..k -> [score : ValidateScores]] : k \in 0..MaxHistory}

InitValidate ==
    /\ variant = "validate"
    /\ cfg = DefaultConfig
    /\ pc = "idle"
    /\ stop = "RUNNING"
    /\ iteration_count = 0
    /\ history \in ValidateInputs
    /\ critique_improvement_history = <<>>
    /\ current_system_prompt = 0
    /\ current_critique_prompt = 0
    /\ current_score = 0
    /\ best_score = 0
    /\ iterations_without_improvement = 0
    /\ meta_evaluation = Unbound
    /\ last = NoCalls
    /\ failures = 0
    /\ result = NoResult

\* validate_critique_quality(history)
ValidateCall ==
    /\ variant = "validate"
    /\ pc = "idle"
    /\ pc' = "returned"
    /\ result' = [returned |-> TRUE, report |-> ValidateCritiqueQuality(history)]
    /\ UNCHANGED <<variant, cfg, stop, iteration_count, history,
                   critique_improvement_history, current_system_prompt,
                   current_critique_prompt, current_score, best_score,
                   iterations_without_improvement, meta_evaluation, last,
                   failures>>

NextValidate == ValidateCall

SpecValidate == InitValidate /\ [][NextValidate]_vars

\* self.history as calculate_final_confidence hands it to
\* validate_critique_quality: the records a controller appends, each with
\* the meta-evaluation of its round or None.
RecordMetaEvaluations ==
    {[kind |-> "None", meta_score |-> 0]}
        \cup [kind : {"int"}, meta_score : MetaValues]
RecordHistories ==
    UNION {{[i \in 1..k |->
                IterationRecord(i, 0, 0, 0, 0, f[i].score,
                                IF f[i].meta.kind = "None"
                                THEN MetaOrNone(Unbound)
                                ELSE MetaAt(f[i].meta, i))]
            : f \in [1..k -> [score : {50, 72}, meta : RecordMetaEvaluations]]}
           : k \in 0..(MaxHistory - 1)}

InitValidateRecords ==
    /\ variant = "validate"
    /\ cfg = DefaultConfig
    /\ pc = "idle"
    /\ stop = "RUNNING"
    /\ iteration_count = 0
    /\ history \in RecordHistories
    /\ critique_improvement_history = <<>>
    /\ current_system_prompt = 0
    /\ current_critique_prompt = 0
    /\ current_score = 0
    /\ best_score = 0
    /\ iterations_without_improvement = 0
    /\ meta_evaluation = Unbound
    /\ last = NoCalls
    /\ failures = 0
    /\ result = NoResult

SpecValidateRecords == InitValidateRecords /\ [][NextValidate]_vars

\* Scores a history entry can hold: int(...) of whatever number the oracle
\* put under "score" (line 327 checks no range), 0 for a missing one.
AggregateScores == StoredScores \cup {-50, 150}

\* self.history and self.critique_improvement_history as
\* calculate_final_confidence reads them
AggregateHistories ==
    UNION {[1..k -> [score : AggregateScores]] : k \in 0..(MaxHistory - 1)}
AggregateImprovements ==
    {<<>>} \cup {<<CritiqueImprovementRecord(1, m, 0, 1)>> : m \in MetaValues \cup {0}}

InitAggregate ==
    /\ variant = "aggregate"
    /\ cfg = DefaultConfig
    /\ pc = "idle"
    /\ stop = "RUNNING"
    /\ iteration_count = 0
    /\ history \in AggregateHistories
    /\ critique_improvement_history \in AggregateImprovements
    /\ current_system_prompt = 0
    /\ current_critique_prompt = 0
    /\ current_score = 0
    /\ best_score = 0
    /\ iterations_without_improvement = 0
    /\ meta_evaluation = Unbound
    /\ last = NoCalls
    /\ failures = 0
    /\ result = NoResult

\* self.calculate_final_confidence()
AggregateCall ==
    /\ variant = "aggregate"
    /\ pc = "idle"
    /\ pc' = "returned"
    /\ result' = [returned |-> TRUE,
                  confidence |-> CalculateFinalConfidence(
                                     history, critique_improvement_history)]
    /\ UNCHANGED <<variant, cfg, stop, iteration_count, history,
                   critique_improvement_history, current_system_prompt,
                   current_critique_prompt, current_score, best_score,
                   iterations_without_improvement, meta_evaluation, last,
                   failures>>

NextAggregate == AggregateCall

SpecAggregate == InitAggregate /\ [][NextAggregate]_vars

\* cross_validate_improvement(current_system_prompt, new_system_prompt,
\* user_input, VALIDATION_ROUNDS) on its own: last holds what the oracle
\* answers to the calls the function makes.
InitCrossValidate ==
    /\ variant = "cross_validate"
    /\ cfg = DefaultConfig
    /\ pc = "idle"
    /\ stop = "RUNNING"
    /\ iteration_count = 0
    /\ history = <<>>
    /\ critique_improvement_history = <<>>
    /\ current_system_prompt = 0
    /\ current_critique_prompt = 0
    /\ current_score = 0
    /\ best_score = 0
    /\ iterations_without_improvement = 0
    /\ meta_evaluation = Unbound
    /\ last \in CvOutputs
    /\ failures = 0
    /\ result = NoResult

CrossValidateCall ==
    /\ variant = "cross_validate"
    /\ pc = "idle"
    /\ pc' = "returned"
    /\ result' = [returned |-> TRUE, cv |-> CrossValidate(last)]
    /\ UNCHANGED <<variant, cfg, stop, iteration_count, history,
                   critique_improvement_history, current_system_prompt,
                   current_critique_prompt, current_score, best_score,
                   iterations_without_improvement, meta_evaluation, last,
                   failures>>

NextCrossValidate == CrossValidateCall

SpecCrossValidate == InitCrossValidate /\ [][NextCrossValidate]_vars

----------------------------------------------------------------------------
(* Properties *)

\* The run is over: the loop has been left.
Ended == pc \in {"done", "returned"}

\* The last executed round assigned current_score (the critique came back
\* and int(...) did not raise).
ScoreAssigned == last.round >= 1 /\ last.raw_score.kind \in {"int", "missing"}

\* C1: in either controller, a run that ends in a round where both
\* score >= target and rounds-without-improvement >= patience hold ends as
\* STOPPED_TARGET_MET, never as STOPPED_NO_PROGRESS.
C1_TargetTakesPrecedence ==
    (/\ Ended /\ ScoreAssigned /\ last.round = iteration_count
     /\ current_score >= TARGET_SCORE
     /\ iterations_without_improvement >= cfg.patience)
        => stop = "STOPPED_TARGET_MET"

\* C2: every score stored in a history record and every meta-score stored
\* in a meta-evaluation or in a critique-improvement record is an integer
\* in 1..100.
C2_StoredScoresInRange ==
    /\ \A i \in 1..Len(history) :
          /\ history[i].score \in 1..100
          /\ history[i].meta_evaluation.kind # "None"
                => history[i].meta_evaluation.meta_score \in 1..100
    /\ \A j \in 1..Len(critique_improvement_history) :
          critique_improvement_history[j].meta_score \in 1..100

\* C3: when the oracle gives no result for the response or for the critique
\* in round k, the run stops in that round: no record is appended for round
\* k, the history holds exactly the records of rounds 1..k-1, and best
\* score, the stagnation counter, both active prompts and the critique
\* improvement history are as round k-1 left them; no round follows.
C3_FailureLeavesStateOfPreviousRound ==
    [][/\ (stop = "RUNNING" /\ stop' = "STOPPED_FAILURE")
            => /\ iteration_count' = iteration_count + 1
               /\ pc' = "done"
               /\ history' = history
               /\ Len(history) = iteration_count
               /\ \A i \in 1..Len(history) : history[i].iteration = i
               /\ best_score' = best_score
               /\ iterations_without_improvement' = iterations_without_improvement
               /\ current_system_prompt' = current_system_prompt
               /\ current_critique_prompt' = current_critique_prompt
               /\ current_score' = current_score
               /\ critique_improvement_history' = critique_improvement_history
       /\ stop = "STOPPED_FAILURE"
            => /\ stop' = stop
               /\ iteration_count' = iteration_count
               /\ history' = history
               /\ best_score' = best_score
               /\ iterations_without_improvement' = iterations_without_improvement
               /\ current_system_prompt' = current_system_prompt
               /\ current_critique_prompt' = current_critique_prompt
               /\ critique_improvement_history' = critique_improvement_history
               /\ result'.returned
                    => /\ Len(result'.history) = result'.total_iterations - 1
                       /\ result'.best_score = best_score
                       /\ result'.final_system_prompt = current_system_prompt
                       /\ result'.final_critique_prompt = current_critique_prompt]_vars

\* The response fails in round 2: one record, that of round 1.
C3_Witness ==
    /\ stop = "STOPPED_FAILURE" /\ pc = "returned"
    /\ iteration_count = 2 /\ ~last.scored
    /\ Len(result.history) = 1 /\ result.history[1].iteration = 1

\* C4: a run that ends without an oracle failure (target met, no progress,
\* max rounds) returns as many history records as rounds executed, the
\* round of a no-progress stop included.
C4_RecordForEveryRound ==
    (/\ pc = "returned"
     /\ stop \in {"STOPPED_TARGET_MET", "STOPPED_NO_PROGRESS", "STOPPED_MAX_ROUNDS"})
        => Len(result.history) = result.total_iterations

\* C5: best_score never decreases over a round; in a round that assigns a
\* score it changes only when that score strictly exceeds it, becoming
\* exactly that score with the stagnation counter reset to 0; otherwise the
\* counter grows by exactly 1.  A round that assigns no score leaves both.
C5_BestScoreMonotone ==
    [][iteration_count' # iteration_count
          => /\ best_score' >= best_score
             /\ IF last'.raw_score.kind \in {"int", "missing"}
                THEN IF current_score' > best_score
                     THEN /\ best_score' = current_score'
                          /\ iterations_without_improvement' = 0
                     ELSE /\ best_score' = best_score
                          /\ iterations_without_improvement'
                                = iterations_without_improvement + 1
                ELSE /\ best_score' = best_score
                     /\ iterations_without_improvement'
                           = iterations_without_improvement]_vars

\* The best score was raised from 50 to 72, then met by a tie.
C5_Witness ==
    /\ iteration_count = 3 /\ Len(history) >= 2
    /\ history[1].score = 50 /\ history[2].score = 72
    /\ current_score = 72 /\ ScoreAssigned /\ last.round = 3
    /\ best_score = 72 /\ iterations_without_improvement = 1

\* C6: a run stops for no progress exactly in the first round at which the
\* stagnation counter reaches the patience p: at the stop the counter has
\* reached p (is p, for p >= 1), the best score was last raised p rounds
\* before, and a run that went on past a round had not reached p in it
\* (or had reached the target).
C6_NoProgressAtPatience ==
    /\ stop = "STOPPED_NO_PROGRESS"
          => /\ ScoreAssigned /\ last.round = iteration_count
             /\ iterations_without_improvement >= cfg.patience
             /\ cfg.patience >= 1
                   => /\ iterations_without_improvement = cfg.patience
                      /\ best_score > 0
                            => LET r == iteration_count - cfg.patience
                               IN  /\ r >= 1
                                   /\ history[r].score = best_score
                                   /\ \A i \in 1..Len(history) :
                                         /\ i < r => history[i].score < best_score
                                         /\ i > r => history[i].score <= best_score
    /\ (pc = "loop" /\ ScoreAssigned)
          => \/ iterations_without_improvement < cfg.patience
             \/ TargetReached(current_score)

\* Scores 50, 50, 50, 50 with patience 3: stopped in round 4, best score 50.
C6_Witness ==
    /\ stop = "STOPPED_NO_PROGRESS" /\ cfg.patience = 3
    /\ iteration_count = 4 /\ best_score = 50 /\ current_score = 50
    /\ \A i \in 1..3 : history[i].score = 50
    /\ iterations_without_improvement = 3

\* C7: the basic controller stops at the end of the first round whose score
\* is >= target: that round is the last one started, it has its record, no
\* system prompt revision was requested in it, and the returned final_score
\* is its score with target_achieved true.
C7_BasicStopsAtFirstTargetRound ==
    /\ \A i \in 1..Len(history) :
          history[i].score >= TARGET_SCORE
             => i = Len(history) /\ current_score = history[i].score
    /\ (current_score >= TARGET_SCORE /\ pc # "raised")
          => /\ ScoreAssigned /\ last.round = iteration_count
             /\ GetScore(last.raw_score) = current_score
             /\ ~last.system_revision
             /\ Len(history) = iteration_count
             /\ history[Len(history)].iteration = iteration_count
             /\ history[Len(history)].score = current_score
             /\ pc = "loop" \/ stop = "STOPPED_TARGET_MET"
             /\ pc = "returned"
                   => /\ result.final_score = current_score
                      /\ result.target_achieved
                      /\ result.total_iterations = iteration_count
                      /\ Len(result.history) = iteration_count

\* Four rounds, the fourth scored 96: final_score 96 and four records.
C7_Witness ==
    /\ variant = "basic" /\ pc = "returned" /\ stop = "STOPPED_TARGET_MET"
    /\ result.total_iterations = 4 /\ result.final_score = 96
    /\ result.target_achieved /\ Len(result.history) = 4
    /\ result.history[1].score = 50 /\ result.history[2].score = 72

\* C8: in the enhanced controller a round that scored >= target with the
\* overall confidence below the confidence target does not end the run:
\* a run that has ended after such a round was stopped by patience or by
\* max rounds.
C8_TargetMetNeedsConfidence ==
    (/\ variant = "enhanced" /\ Ended
     /\ ScoreAssigned /\ last.round = iteration_count
     /\ current_score >= TARGET_SCORE
     /\ CalculateFinalConfidence(history, critique_improvement_history)
           < CONFIDENCE_THRESHOLD)
        => \/ iterations_without_improvement >= cfg.patience
           \/ iteration_count >= cfg.max_iterations

\* C9: whatever the oracle answers, the round counter never exceeds the
\* configured maximum, a run that stops for max rounds stops with the
\* counter at the maximum, and every run goes on until it returns a result.
C9_ReturnsWithinMaxRounds ==
    /\ iteration_count <= cfg.max_iterations
    /\ stop = "STOPPED_MAX_ROUNDS" => iteration_count = cfg.max_iterations
    /\ pc = "returned" \/ ENABLED Next

\* C10: in the enhanced controller the system prompt after a round differs
\* from the one before it only if a candidate was cross-validated with
\* confidence >= 60; with a confidence below 60, and whenever every sampled
\* score of the candidate is lower than every sampled score of the old
\* prompt, the system prompt after the round is the one before it.
C10_ReplacedOnlyOnConfidence ==
    (variant = "enhanced" /\ last.round >= 1)
        => /\ current_system_prompt # last.used_system
                 => /\ last.cv.ran
                    /\ last.cv.num >= 60 * last.cv.den
                    /\ current_system_prompt = last.cv.candidate
           /\ (last.cv.ran /\ last.cv.num < 60 * last.cv.den)
                 => current_system_prompt = last.used_system
           /\ (last.cv.ran /\ last.cv.lower)
                 => /\ last.cv.num < 60 * last.cv.den
                    /\ current_system_prompt = last.used_system

\* A candidate sampled uniformly lower was cross-validated and rejected.
C10_Witness ==
    /\ variant = "enhanced" /\ last.round = 2
    /\ last.cv.ran /\ last.cv.lower
    /\ current_system_prompt = last.used_system
    /\ last.used_system = 1

\* C11: when, for the old prompt or for the new one, no test input gets a
\* score from the oracle, cross-validation returns exactly the neutral 50
\* and the controller keeps the system prompt it had.
C11_UnscoredSideIsNeutral ==
    (variant = "enhanced" /\ last.cv.ran /\ last.cv.unscored)
        => /\ last.cv.num = 50 * last.cv.den
           /\ current_system_prompt = last.used_system

\* C12: no exception escapes the run entry point: whatever the oracle
\* answers, the run never ends by raising instead of returning a result.
C12_NoExceptionEscapes ==
    pc # "raised" /\ stop # "RAISED"

\* What the basic controller returns when response generation fails in
\* round 2 after a round 1 scored 50, both improvement toggles off.
C13_ResultOfFailureInRound2 ==
    [returned |-> TRUE,
     final_system_prompt |-> 0,
     final_critique_prompt |-> 0,
     final_score |-> 50,
     best_score |-> 50,
     total_iterations |-> 2,
     target_achieved |-> FALSE,
     history |-> <<IterationRecord(1, 0, 0, 0, 0, 50, MetaOrNone(Unbound))>>,
     critique_improvement_history |-> <<>>]

\* A run that stopped on an oracle failure returns that result.
C13_FailureRunReturnsIt ==
    /\ pc = "returned" /\ stop = "STOPPED_FAILURE"
    /\ result = C13_ResultOfFailureInRound2

\* C13: the returned result identifies the terminal state: runs that end
\* in different terminal states never return identical results.  Here for
\* the result of a run that stopped on a failure in round 2: every run
\* that returns it stopped on a failure.
C13_ResultIdentifiesTerminalState ==
    (pc = "returned" /\ result = C13_ResultOfFailureInRound2)
        => stop = "STOPPED_FAILURE"

\* The step is a round of the basic controller in which a meta-evaluation
\* came back with a meta-score below CRITIQUE_IMPROVEMENT_THRESHOLD.
LowMetaRound ==
    /\ variant = "basic" /\ iteration_count' = iteration_count + 1
    /\ last'.meta_requested
    /\ meta_evaluation'.at = iteration_count'
    /\ meta_evaluation'.kind \in {"int", "missing"}
    /\ meta_evaluation'.meta_score < CRITIQUE_IMPROVEMENT_THRESHOLD

\* The step replaces the critique prompt and appends the one record of it.
ReplacesCritiquePrompt ==
    /\ current_critique_prompt' # current_critique_prompt
    /\ critique_improvement_history' =
          Append(critique_improvement_history,
                 CritiqueImprovementRecord(iteration_count',
                                           meta_evaluation'.meta_score,
                                           current_critique_prompt,
                                           current_critique_prompt'))

KeepsCritiquePrompt ==
    /\ current_critique_prompt' = current_critique_prompt
    /\ critique_improvement_history' = critique_improvement_history

\* C14 as stated: every round of the basic controller whose meta-score is
\* below the threshold requests a revision, replaces the critique prompt
\* and appends one record; every other round appends none and leaves the
\* critique prompt.
C14_EveryLowMetaRoundAppends ==
    [][IF LowMetaRound
       THEN last'.critique_revision /\ ReplacesCritiquePrompt
       ELSE KeepsCritiquePrompt]_vars

\* C14, amended: a round of the basic controller whose meta-score is below
\* the threshold requests a revision; it replaces the critique prompt and
\* appends one record when the request returns a text, and leaves both
\* when it returns none; a round without a meta-score below the threshold
\* requests no revision and leaves both.
C14_LowMetaRoundAppendsWhenRevised ==
    [][IF LowMetaRound
       THEN /\ last'.critique_revision
            /\ IF last'.critique_revised
               THEN ReplacesCritiquePrompt ELSE KeepsCritiquePrompt
       ELSE /\ iteration_count' # iteration_count => ~last'.critique_revision
            /\ KeepsCritiquePrompt]_vars

\* Meta-score 60 in rounds 1 and 3: two records; the run was evaluated twice.
C14_Witness ==
    /\ variant = "basic" /\ pc = "returned" /\ iteration_count >= 3
    /\ Len(result.critique_improvement_history) = 2
    /\ result.critique_improvement_history[1].iteration = 1
    /\ result.critique_improvement_history[2].iteration = 3
    /\ result.critique_improvement_history[2].meta_score = 60
    /\ result.final_critique_prompt = 3

\* C15: the two toggles act independently.  With system prompt improvement
\* off no revision of it is requested and the system prompt is the initial
\* one in every record and in the result; with critique improvement off no
\* meta-evaluation and no critique revision is requested, the critique
\* prompt is the initial one throughout and the critique improvement
\* history stays empty.
C15_TogglesIndependent ==
    /\ ~cfg.enable_system
          => /\ ~last.system_revision /\ ~last.cv.ran
             /\ current_system_prompt = 0
             /\ \A i \in 1..Len(history) :
                   history[i].system_prompt = 0 /\ history[i].response.by = 0
             /\ result.returned => result.final_system_prompt = 0
    /\ ~cfg.enable_critique
          => /\ ~last.meta_requested /\ ~last.critique_revision
             /\ current_critique_prompt = 0
             /\ critique_improvement_history = <<>>
             /\ meta_evaluation.kind \in {"unbound", "None"}
             /\ \A i \in 1..Len(history) :
                   /\ history[i].critique_prompt_used = 0
                   /\ history[i].critique.by = 0
                   /\ history[i].meta_evaluation.kind = "None"
             /\ result.returned
                   => /\ result.final_critique_prompt = 0
                      /\ result.critique_improvement_history = <<>>

\* System prompt improvement off, and the critique prompt was revised.
C15_Witness ==
    /\ ~cfg.enable_system /\ cfg.enable_critique
    /\ pc = "returned" /\ Len(result.history) >= 2
    /\ result.final_system_prompt = 0
    /\ result.final_critique_prompt # 0
    /\ result.critique_improvement_history # <<>>

\* Critique improvement off, and the system prompt was revised.
C15_SystemRevisedAlone ==
    /\ cfg.enable_system /\ ~cfg.enable_critique
    /\ pc = "returned" /\ result.final_system_prompt # 0
    /\ result.final_critique_prompt = 0

\* C16: the record of a round stores the system prompt that generated the
\* round's response and the critique prompt that produced its score.
C16_RecordStoresPromptsUsed ==
    \A i \in 1..Len(history) :
        /\ history[i].system_prompt = history[i].response.by
        /\ history[i].critique_prompt_used = history[i].critique.by

\* C17: a record carries a meta-evaluation only if its own round was a
\* critique evaluation round and the meta-evaluation was produced in it.
C17_MetaEvaluationOfOwnRound ==
    \A i \in 1..Len(history) :
        history[i].meta_evaluation.kind # "None"
            => /\ history[i].meta_evaluation.at = history[i].iteration
               /\ CritiqueEvaluationDue(cfg.enable_critique, history[i].iteration)

\* C18: validate_critique_quality on a history of fewer than 2 entries
\* returns the neutral report, confidence 50 and is_valid true, whatever
\* the scores.
C18_ShortHistoryIsNeutral ==
    (variant = "validate" /\ pc = "returned" /\ Len(history) < 2)
        => /\ result.report.is_valid = TRUE
           /\ result.report.confidence = 50
           /\ result.report.reason = "Insufficient history"

\* One entry, scored 96.
C18_Witness ==
    /\ variant = "validate" /\ pc = "returned"
    /\ Len(history) = 1 /\ history[1].score = 96
    /\ result.report.confidence = 50

\* C19: validate_critique_quality depends on the last 3 entries only: any
\* history of at least 3 entries with the same last 3 gets the same report.
C19_ReportOfTrailingWindow ==
    (variant = "validate" /\ pc = "returned" /\ Len(history) >= 3)
        => \A other \in ValidateInputs :
              (/\ Len(other) >= 3
               /\ SubSeq(other, Len(other) - 2, Len(other))
                     = SubSeq(history, Len(history) - 2, Len(history)))
                 => ValidateCritiqueQuality(other) = result.report

\* Four entries, the first (outside the window) unlike the others.
C19_Witness ==
    /\ variant = "validate" /\ pc = "returned"
    /\ Len(history) = 4 /\ history[1].score = 96
    /\ history[2].score = 50 /\ history[3].score = 50 /\ history[4].score = 72
    /\ result.report.trend_score = 94

\* C20: the value calculate_final_confidence returns is within 0..100 for
\* every history and critique improvement history the controller can hold.
C20_ConfidenceInRange ==
    (variant = "aggregate" /\ pc = "returned")
        => result.confidence \in 0..100

\* The step is a round of the basic controller (the round counter moves).
BasicRoundStep ==
    variant = "basic" /\ iteration_count' = iteration_count + 1

\* The round number is one at which the rubric is evaluated.
EvaluationRound(n) ==
    cfg.enable_critique /\ (n = 1 \/ n % IMPROVE_CRITIQUE_EVERY = 0)

C22_TriggeredRoundStoresMetaEvaluation ==
    variant = "enhanced"
        => /\ \A i \in 1..Len(history) :
                 EnhancedEvaluationDue(cfg.enable_critique, history[i].iteration,
                                       history[i].critique_validation)
                    => history[i].meta_evaluation.kind # "None"
           /\ (/\ ScoreAssigned /\ last.round = iteration_count
               /\ Len(history) = iteration_count
               /\ EnhancedEvaluationDue(cfg.enable_critique, iteration_count,
                                        history[Len(history)].critique_validation))
                 => last.meta_requested

\* C23: a revision of the system prompt is requested in round n if and only
\* if system prompt improvement is enabled, the round's score is below the
\* target and n is below MAX_ITERATIONS: so also in a round that then stops
\* for no progress, and neither in a round that reaches the target nor in
\* the last permitted round.
C23_SystemRevisionIffBelowTarget ==
    (ScoreAssigned /\ last.round = iteration_count /\ pc # "raised")
        => (last.system_revision
               <=> /\ cfg.enable_system
                   /\ current_score < TARGET_SCORE
                   /\ iteration_count < cfg.max_iterations)

\* C24: cross-validation evaluates exactly VALIDATION_ROUNDS test inputs,
\* the base input and the generated variations, the base input standing
\* in for every variation the oracle did not deliver.
C24_EvaluatesSampleCountInputs ==
    (variant = "cross_validate" /\ pc = "returned")
        => result.cv.inputs = VALIDATION_ROUNDS

\* C25: with both score lists non-empty, cross-validation returns
\* clamp(50 + 2 * (mean(new_scores) - mean(old_scores)), 0, 100): a value
\* within 0..100, 50 for equal means, and >= 60 exactly when the mean of
\* the new scores exceeds the mean of the old ones by at least 5.
\* (d / n is the difference of the means.)
C25_ConfidenceOfMeanDifference ==
    (/\ variant = "cross_validate" /\ pc = "returned"
     /\ result.cv.old_scores # <<>> /\ result.cv.new_scores # <<>>)
        => LET cv == result.cv
               n == Len(cv.old_scores) * Len(cv.new_scores)
               d == SeqSum(cv.new_scores) * Len(cv.old_scores)
                       - SeqSum(cv.old_scores) * Len(cv.new_scores)
               clamped == IF 50 * n + 2 * d < 0 THEN 0
                          ELSE IF 50 * n + 2 * d > 100 * n THEN 100 * n
                          ELSE 50 * n + 2 * d
           IN  /\ cv.num * n = clamped * cv.den
               /\ cv.den > 0 /\ 0 <= cv.num /\ cv.num <= 100 * cv.den
               /\ d = 0 => cv.num = 50 * cv.den
               /\ cv.num >= 60 * cv.den <=> d >= 5 * n

\* Two inputs, the old prompt scored 50 and 50, the new one 55 and 55:
\* confidence exactly 60.
C25_Witness ==
    /\ variant = "cross_validate" /\ pc = "returned"
    /\ result.cv.old_scores = <<50, 50>> /\ result.cv.new_scores = <<55, 55>>
    /\ result.cv.num = 60 /\ result.cv.den = 1

\* C26: every critique obtained during cross-validation is produced with
\* the critique prompt that is active in the controller, the one the next
\* round would score with, the caller-supplied one included.
C26_CrossValidationUsesActiveCritiquePrompt ==
    (variant = "enhanced" /\ last.cv.ran)
        => /\ last.cv.rubric = current_critique_prompt
           /\ last.cv.rubric = last.used_critique

\* C27: in every report computed from at least 2 entries, is_valid is true
\* exactly when the confidence the report carries is >= 70.
C27_ValidIffReportedConfidence ==
    (variant = "validate" /\ pc = "returned" /\ Len(history) >= 2)
        => (result.report.is_valid <=> result.report.confidence >= 70)

\* The meta-scores of the meta-evaluations carried by the trailing window
\* of a history of records.
WindowMetaScores(hist) ==
    LET recent == LastN(hist, CRITIQUE_STABILITY_WINDOW)
        with == SelectSeq(recent, LAMBDA h : h.meta_evaluation.kind # "None")
    IN  [i \in 1..Len(with) |-> with[i].meta_evaluation.meta_score]

\* C28: for a history of records whose trailing window carries
\* meta-evaluations, the report's meta_stability is 100 when the mean of
\* their meta-scores is >= CRITIQUE_IMPROVEMENT_THRESHOLD and that mean
\* (rounded, as the report rounds) otherwise.
C28_MetaStabilityOfWindow ==
    (/\ variant = "validate" /\ pc = "returned" /\ Len(history) >= 2
     /\ WindowMetaScores(history) # <<>>)
        => LET ms == WindowMetaScores(history)
           IN  result.report.meta_stability =
                  IF SeqSum(ms) >= CRITIQUE_IMPROVEMENT_THRESHOLD * Len(ms)
                  THEN 100 ELSE RoundHalfEven(SeqSum(ms), Len(ms))

\* C29: the trend score of a report is clamp(50 + 2 * (last - first), 0,
\* 100), first and last being the first and last scores of the trailing
\* window of at most 3 entries: 50 for a flat window, 100 when the last
\* score exceeds the first by 25 or more, 0 when it is lower by 25 or more.
C29_TrendOfTrailingWindow ==
    (variant = "validate" /\ pc = "returned" /\ Len(history) >= 2)
        => LET n == Len(history)
               first == history[IF n > 3 THEN n - 2 ELSE 1].score
               final == history[n].score
               raw == 50 + 2 * (final - first)
               trend == result.report.trend_score
           IN  /\ trend = IF raw < 0 THEN 0 ELSE IF raw > 100 THEN 100 ELSE raw
               /\ final = first => trend = 50
               /\ final - first >= 25 => trend = 100
               /\ first - final >= 25 => trend = 0

\* Four entries 96, 72, 0, 50: the window starts at 72, the trend is 6.
C29_Witness ==
    /\ variant = "validate" /\ pc = "returned" /\ Len(history) = 4
    /\ history[1].score = 96 /\ history[2].score = 72
    /\ history[3].score = 0 /\ history[4].score = 50
    /\ result.report.trend_score = 6

\* C30: the critique-quality component of calculate_final_confidence is 0
\* when the critique improvement history is empty, and min(100, m + 10)
\* otherwise, m being the meta-score of the most recent improvement.
C30_CritiqueQualityComponent ==
    (variant = "aggregate" /\ pc = "returned" /\ history # <<>>)
        => CritiqueQuality(critique_improvement_history) =
              IF critique_improvement_history = <<>> THEN 0
              ELSE LET m == critique_improvement_history[
                                Len(critique_improvement_history)].meta_score
                   IN  IF m + 10 > 100 THEN 100 ELSE m + 10

\* C31: for a non-empty history calculate_final_confidence returns
\* 0.4 * T + 0.3 * S + 0.3 * R rounded to the nearest integer, T being 100
\* if the last score is >= TARGET_SCORE and 100 * score / TARGET_SCORE
\* otherwise, S the confidence of the validation report on the whole
\* history, R the critique-quality component.  (All of it times
\* 10 * TARGET_SCORE: the returned value is within 1/2 of the sum.)
C31_AggregateOfThreeComponents ==
    (variant = "aggregate" /\ pc = "returned" /\ history # <<>>)
        => LET score == history[Len(history)].score
               t_times_target == IF score >= TARGET_SCORE
                                 THEN 100 * TARGET_SCORE ELSE 100 * score
               s_conf == ValidateCritiqueQuality(history).confidence
               r_quality == CritiqueQuality(critique_improvement_history)
               exact == 4 * t_times_target
                           + 3 * TARGET_SCORE * (s_conf + r_quality)
               diff == 10 * TARGET_SCORE * result.confidence - exact
           IN  /\ 2 * diff <= 10 * TARGET_SCORE
               /\ -2 * diff <= 10 * TARGET_SCORE

\* Scores 50, 72 and one critique improvement with meta-score 60:
\* 0.4 * 75.8 + 0.3 * 65 + 0.3 * 70 = 70.8, returned as 71.
C31_Witness ==
    /\ variant = "aggregate" /\ pc = "returned" /\ Len(history) = 2
    /\ history[1].score = 50 /\ history[2].score = 72
    /\ critique_improvement_history # <<>>
    /\ critique_improvement_history[1].meta_score = 60
    /\ result.confidence = 71

\* C32: the confidence stored in the record of round n is the aggregate
\* confidence over the history up to and including that record.
C32_SnapshotIncludesOwnRound ==
    variant = "enhanced"
        => \A i \in 1..Len(history) :
              history[i].confidence =
                 CalculateFinalConfidence(SubSeq(history, 1, i),
                                          critique_improvement_history)

\* C33: every invocation of run_dual_improvement starts with the round
\* counter at 0 and with empty history and critique improvement history,
\* also on a controller object whose earlier run has returned.
C33_EveryRunStartsFresh ==
    [][(pc \in {"idle", "returned"} /\ pc' = "loop")
          => /\ stop' = "RUNNING"
             /\ iteration_count' = 0
             /\ history' = <<>>
             /\ critique_improvement_history' = <<>>]_vars

\* C34: within a run the history is append-only and in round order: a
\* step leaves it or appends one record at its end, the record of the
\* round just executed; the records it held are not touched, and the
\* round numbers of the records are strictly increasing.
C34_HistoryAppendOnly ==
    [][/\ Len(history') \in {Len(history), Len(history) + 1}
       /\ SubSeq(history', 1, Len(history)) = history
       /\ Len(history') = Len(history) + 1
             => /\ iteration_count' = iteration_count + 1
                /\ history'[Len(history')].iteration = iteration_count'
       /\ \A i, j \in 1..Len(history') :
             i < j => history'[i].iteration < history'[j].iteration]_vars

\* Four rounds of the enhanced controller, four records in round order.
C34_Witness ==
    /\ variant = "enhanced" /\ pc = "returned"
    /\ Len(result.history) = 4
    /\ \A i \in 1..4 : result.history[i].iteration = i
    /\ result.history[1].score = 72 /\ result.history[4].score = 50

\* Histories an enhanced run can end with when it reaches the target:
\* scores within 1..100, the last one >= TARGET_SCORE.  The validation
\* report and the aggregate read the last CRITIQUE_STABILITY_WINDOW
\* entries only.
TargetHistories ==
    {h \in UNION {[1..k -> [score : {50, 72, 84, 96, 100}]]
                    : k \in 1..CRITIQUE_STABILITY_WINDOW}
        : h[Len(h)].score >= TARGET_SCORE}

\* C35: the enhanced controller can end a run in full success: with the
\* critique improvement history its runs have (empty), some history that
\* reaches the target has an aggregate confidence >= CONFIDENCE_THRESHOLD.
\* Stated where calculate_final_confidence has been applied to a history
\* that reached the target.
C35_FullSuccessAttainable ==
    (/\ variant = "aggregate" /\ pc = "returned"
     /\ critique_improvement_history = <<>>
     /\ history # <<>> /\ history[Len(history)].score \in TARGET_SCORE..100)
        => \E h \in TargetHistories :
              CalculateFinalConfidence(h, <<>>) >= CONFIDENCE_THRESHOLD

\* C35, seen from the enhanced controller: a returned result with
\* full_success true.
C35_FullSuccessReturned ==
    /\ variant = "enhanced" /\ pc = "returned"
    /\ result.full_success

\* C36: a run that ends without an oracle failure returns, as the final
\* system prompt, the prompt whose response got the returned final score:
\* the system prompt is not replaced after the last scoring of the run.
C36_FinalPromptIsTheScoredOne ==
    (pc = "returned" /\ stop \notin {"STOPPED_FAILURE", "RAISED"})
        => /\ ScoreAssigned /\ last.round = iteration_count
           /\ result.final_score = GetScore(last.raw_score)
           /\ result.final_system_prompt = last.used_system

\* The oracle calls of a scored round of the basic controller that came
\* back without a result.
MetaEvaluationFailed ==
    last'.meta_requested /\ meta_evaluation'.kind = "None"
CritiqueRevisionFailed ==
    last'.critique_revision /\ ~last'.critique_revised
SystemRevisionFailed ==
    /\ last'.system_revision
    /\ failures' = failures + 1 + (IF MetaEvaluationFailed THEN 1 ELSE 0)
                             + (IF CritiqueRevisionFailed THEN 1 ELSE 0)

\* The stop test of lines 396-400 on the values the round has assigned.
TerminationCheckDecides ==
    IF BasicEarlyStop(current_score', iterations_without_improvement',
                      cfg.patience)
    THEN pc' = "done" /\ stop' = "STOPPED_NO_PROGRESS"
    ELSE pc' = "loop" /\ stop' = "RUNNING"

\* C37: in the basic controller a meta-evaluation, critique-prompt revision
\* or system-prompt revision that returns nothing is not fatal: the run
\* does not stop as a failure, the prompt concerned stays as it was, a
\* failed critique-prompt revision appends no improvement record, and the
\* round goes on to its stop test and completes.
C37_RevisionNoResultIsNonFatal ==
    [][(BasicRoundStep /\ ScoreAssigned')
         => /\ MetaEvaluationFailed
                 => /\ KeepsCritiquePrompt
                    /\ ~last'.critique_revision
                    /\ TerminationCheckDecides
            /\ CritiqueRevisionFailed
                 => /\ KeepsCritiquePrompt
                    /\ TerminationCheckDecides
            /\ SystemRevisionFailed
                 => /\ current_system_prompt' = current_system_prompt
                    /\ pc' = "loop" /\ stop' = "RUNNING"
                    /\ Len(history') = Len(history) + 1
                    /\ history'[Len(history')].iteration = iteration_count'
                    /\ history'[Len(history')].system_prompt
                           = current_system_prompt]_vars

\* Round 1 of a basic run lost both its meta-evaluation and its system
\* prompt revision, and the run goes on.
C37_Witness ==
    /\ variant = "basic" /\ pc = "loop" /\ stop = "RUNNING"
    /\ iteration_count = 1 /\ failures = 2
    /\ last.meta_requested /\ meta_evaluation.kind = "None"
    /\ last.system_revision /\ current_system_prompt = 0
    /\ current_critique_prompt = 0 /\ critique_improvement_history = <<>>
    /\ Len(history) = 1

\* The critique prompt the improvement records lead to from the initial
\* prompt: the new text of the last record, or the initial prompt.
LastRecordedCritiquePrompt(records, initial) ==
    IF records = <<>> THEN initial
    ELSE records[Len(records)].new_critique_prompt

\* C38: in the basic controller, at every point of a run the active critique
\* prompt is the new text of the last improvement record (the caller's
\* initial critique prompt when there is no record), and every record's old
\* text is the new text of the record before it (the initial prompt for the
\* first record).
C38_CritiquePromptChain ==
    (variant = "basic" /\ pc \in {"loop", "done", "returned"})
        => /\ current_critique_prompt
                 = LastRecordedCritiquePrompt(critique_improvement_history, 0)
           /\ \A i \in 1..Len(critique_improvement_history) :
                 critique_improvement_history[i].old_critique_prompt
                    = LastRecordedCritiquePrompt(
                          SubSeq(critique_improvement_history, 1, i - 1), 0)

\* Two revisions of the critique prompt in one run of the basic controller.
C38_Witness ==
    /\ variant = "basic" /\ pc = "returned"
    /\ Len(critique_improvement_history) = 2
    /\ critique_improvement_history[2].old_critique_prompt # 0
    /\ result.final_critique_prompt
          = critique_improvement_history[2].new_critique_prompt

\* The scores of the rounds of the run so far, the last round included
\* when it assigned its score and left no history record.
RoundScores ==
    LET recorded == [i \in 1..Len(history) |-> history[i].score]
    IN  IF Len(history) < iteration_count
        THEN Append(recorded, current_score) ELSE recorded

\* best_score after the first k rounds of the scores s
RECURSIVE BestAfter(_, _)
BestAfter(s, k) ==
    IF k = 0 THEN 0 ELSE Max2(BestAfter(s, k - 1), s[k])

\* The number of rounds of s after the last one that raised the best score.
RoundsSinceBestRaised(s) ==
    LET raising == {k \in 1..Len(s) : s[k] > BestAfter(s, k - 1)}
    IN  Cardinality({k \in 1..Len(s) : \A r \in raising : k > r})

\* A scored round has just made its best-score update.
AfterBestScoreUpdate ==
    /\ pc \in {"loop", "done", "returned"}
    /\ ScoreAssigned /\ last.round = iteration_count

\* The count half of C39.
StagnationCounterCounts ==
    AfterBestScoreUpdate
        => /\ Len(RoundScores) = iteration_count
           /\ best_score = BestAfter(RoundScores, iteration_count)
           /\ iterations_without_improvement
                 = RoundsSinceBestRaised(RoundScores)

====
